---------------------------- MODULE Spec2Model ----------------------------
(***************************************************************************)
(* A model of ics-calendar-reader/scripts/read_ics.py.                     *)
(*                                                                         *)
(* Three parts of the script are modelled, each with its own variables     *)
(* and its own specification:                                              *)
(*   - the fetch cache (fetch_ics_url_content and the loop of main that    *)
(*     calls it): Spec runs the invocations one after the other, SpecRace  *)
(*     runs two invocations against the same cache directory;              *)
(*   - the parser (unfold_ical_lines, parse_property, unescape_ical_text,  *)
(*     parse_dt, parse_ics_events): SpecParse;                             *)
(*   - the filter (normalize_event_start/end, filter_events): SpecFilter.  *)
(*                                                                         *)
(* Text is a sequence of one-character strings.  Python's None is the      *)
(* empty tuple and a present value v is the one-element tuple <<v>>.       *)
(***************************************************************************)
EXTENDS Integers, Sequences, FiniteSets, TLC

VARIABLES
    \* ---- fetch cache ----
    clock,      \* the wall clock, dt.datetime.now(dt.timezone.utc)
    srvVer,     \* the version of the feed the server currently serves
    bodyFile,   \* cache key -> the <key>.ics file
    metaFile,   \* cache key -> the <key>.json file
    pc,         \* invocation -> its position in fetch_ics_url_content
    url,        \* invocation -> the normalized url it fetches
    ttl,        \* invocation -> cache_ttl
    now,        \* invocation -> the local `now` (line 432)
    meta,       \* invocation -> the local `meta` (lines 425-430)
    resp,       \* invocation -> the response it received (content, headers)
    result,     \* invocation -> what the call returned or raised
    outcome,    \* invocation -> how the call was answered (history)
    netCalls,   \* invocation -> urlopen calls made by the current call (history)
    respTime,   \* invocation -> clock when the response arrived (history)
    pre,        \* invocation -> the cache files when the call began (history)
    lastOk,     \* the last finished call answered 200 or 304 (history)
    \* ---- parser ----
    text,       \* the physical lines of the input, text.splitlines()
    lines,      \* the unfolded logical lines
    idx,        \* the line the loop of parse_ics_events is at
    events,     \* the records appended so far
    current,    \* the open record, or None
    ppc,        \* the parser's position: start, loop, returned, raised
    curSeen,    \* what DTSTART/DTEND lines the open record has seen (history)
    evSeen,     \* the same for each appended record (history)
    \* ---- unescape_ical_text on its own ----
    escIn,      \* the value given
    escOut,     \* the value returned, or None before the call
    \* ---- filter ----
    evList,     \* the event dicts passed to filter_events (it writes to them)
    given,      \* the events as they were before the first call (history)
    after,      \* the --after instant, or None
    before,     \* the --before instant, or None
    limit,      \* --limit, or None
    fnow,       \* the wall clock, dt.datetime.now(dt.timezone.utc)
    filtered,   \* what the last call returned
    firstOut,   \* what the first call returned (history)
    calledAt,   \* the clock of the last call (history)
    calls       \* the number of calls made

fetchVars == <<clock, srvVer, bodyFile, metaFile, pc, url, ttl, now, meta, resp,
               result, outcome, netCalls, respTime, pre, lastOk>>

parseVars == <<text, lines, idx, events, current, ppc, curSeen, evSeen>>

escVars == <<escIn, escOut>>
filterVars == <<evList, given, after, before, limit, fnow, filtered, firstOut,
                calledAt, calls>>

vars == <<fetchVars, parseVars, escVars, filterVars>>

\* what the actions of one part leave alone
otherThanFetch == <<parseVars, escVars, filterVars>>
otherThanParse == <<fetchVars, escVars, filterVars>>
otherThanEsc == <<fetchVars, parseVars, filterVars>>
otherThanFilter == <<fetchVars, parseVars, escVars>>

(***************************************************************************)
(* Bounds of the model.                                                    *)
(***************************************************************************)
MaxClock == 3   \* the clock runs from 0 to MaxClock
MaxTtl == 2     \* cache_ttl ranges over 0..MaxTtl
MaxVer == 2     \* the server publishes versions 1..MaxVer of the feed
MaxLines == 4   \* the input text has at most MaxLines physical lines
MaxEscLen == 3  \* unescape_ical_text is given values of at most MaxEscLen characters
MaxEvents == 3  \* filter_events is given at most MaxEvents events
MaxLimit == 2   \* --limit ranges over 0..MaxLimit

(***************************************************************************)
(* Optional values.                                                        *)
(***************************************************************************)
None == <<>>
Some(v) == <<v>>
Get(o) == o[1]

(***************************************************************************)
(* Characters.                                                             *)
(***************************************************************************)
CR == "\r"
LF == "\n"
BadByte == "\\xff"      \* a byte that is not valid UTF-8
Replacement == "\\ufffd" \* U+FFFD, what errors="replace" decodes it to

(***************************************************************************)
(* JSON values of the metadata file.  A string holds a number: for         *)
(* fetched_at, v >= 0 is the isoformat() of clock value v and BadIso is a  *)
(* string fromisoformat() rejects; for etag and last_modified, v >= 1 is   *)
(* the validator of version v and EmptyStr is "".  A missing key reads as  *)
(* null (dict.get).                                                        *)
(***************************************************************************)
BadIso == -1
EmptyStr == 0
JNull == [ty |-> "null", v |-> 0]
JStr(n) == [ty |-> "str", v |-> n]
JNum(n) == [ty |-> "num", v |-> n]

(***************************************************************************)
(* URLs, as urlsplit() sees them: a scheme and the rest.                   *)
(***************************************************************************)
MkUrl(s, r) == [scheme |-> s, rest |-> r]
NoUrl == MkUrl("", "")
FeedRest == "//host/cal.ics"
\* the same host and path followed by the `?` of an empty query
FeedRestEmptyQuery == "//host/cal.ics?"
InputUrls ==
    {MkUrl(s, FeedRest) : s \in {"https", "webcal", "webcals", "WEBCAL"}}
    \cup {MkUrl(s, FeedRestEmptyQuery) : s \in {"https", "webcal"}}

\* str.lower() on the schemes used
Lower(s) == CASE s = "WEBCAL" -> "webcal" [] s = "WEBCALS" -> "webcals"
              [] s = "HTTPS" -> "https" [] OTHER -> s

\* lines 377-382: urlunsplit of the parts urlsplit found; the `?` of an empty
\* query (and the `#` of an empty fragment) is not written back
Unsplit(rest) == IF rest = FeedRestEmptyQuery THEN FeedRest ELSE rest

normalize_calendar_url(u) ==
    LET scheme == Lower(u.scheme) IN
    IF scheme = "webcal" THEN MkUrl("https", Unsplit(u.rest))
    ELSE IF scheme = "webcals" THEN MkUrl("https", Unsplit(u.rest))
    ELSE u

\* sha256 of the url: one key per distinct url string
url_cache_key(u) == u

Keys == {url_cache_key(u) : u \in InputUrls \cup {normalize_calendar_url(u) : u \in InputUrls}}

(***************************************************************************)
(* The metadata file and the `meta` dict read from it.                     *)
(***************************************************************************)
MkMeta(k, u, f, e, l) ==
    [kind |-> k, url |-> u, fetched_at |-> f, etag |-> e, last_modified |-> l]
Dict(u, f, e, l) == MkMeta("dict", u, f, e, l)
EmptyDict == Dict(NoUrl, JNull, JNull, JNull)
MetaAbsent == MkMeta("absent", NoUrl, JNull, JNull, JNull)      \* no file
MetaUnreadable == MkMeta("invalid", NoUrl, JNull, JNull, JNull) \* read_text or json.loads raises
MetaNotDict == MkMeta("nondict", NoUrl, JNull, JNull, JNull)    \* valid JSON, not an object: [] or 3

\* lines 425-430
LoadMeta(f) ==
    IF f.kind = "absent" THEN EmptyDict
    ELSE IF f.kind = "invalid" THEN EmptyDict
    ELSE f

parse_cached_timestamp(value) ==
    IF value.ty # "str" THEN None
    ELSE IF value.v = BadIso THEN None
    ELSE Some(value.v)

\* lines 434-436: the cached body is served without a request
IsFresh(body, m, t, cache_ttl) ==
    LET fetched_at == parse_cached_timestamp(m.fetched_at) IN
    /\ body # None
    /\ fetched_at # None
    /\ t - Get(fetched_at) <= cache_ttl

\* lines 439-445: the validator a header carries, or None
HeaderOf(value) ==
    IF value.ty = "str" /\ value.v # EmptyStr THEN Some(value.v) ELSE None
RequestHeaders(m) ==
    [if_none_match |-> HeaderOf(m.etag), if_modified_since |-> HeaderOf(m.last_modified)]
NoHeaders == [if_none_match |-> None, if_modified_since |-> None]

(***************************************************************************)
(* The server: version v of the feed, its bytes and its validators.        *)
(***************************************************************************)
SrvBytes(v) ==
    IF v % 2 = 1 THEN <<ToString(v), CR, LF, "x", CR, LF>>
    ELSE <<ToString(v), LF, BadByte, LF>>
SrvEtag(v) == JStr(v)
SrvLastModified(v) == JStr(v)

\* bytes.decode("utf-8", errors="replace")
Decode(bytes) ==
    [i \in 1..Len(bytes) |-> IF bytes[i] = BadByte THEN Replacement ELSE bytes[i]]

\* Path.read_text: the file is opened with universal newlines, so "\r\n" and
\* a lone "\r" are read as "\n".  (Path.write_text writes "\n" as os.linesep
\* and leaves "\r" alone: the file holds the text as given.)
RECURSIVE ReadText(_)
ReadText(s) ==
    IF s = <<>> THEN <<>>
    ELSE IF Head(s) = CR
         THEN IF Len(s) >= 2 /\ s[2] = LF
              THEN <<LF>> \o ReadText(SubSeq(s, 3, Len(s)))
              ELSE <<LF>> \o ReadText(Tail(s))
         ELSE <<Head(s)>> \o ReadText(Tail(s))

\* lines 452-457
updated_meta(u, t, r) == Dict(u, JStr(t), r.etag, r.last_modified)
\* a 304 handled like a 200: the metadata is built anew from the (absent)
\* validators of the answer
RefreshedMetaBuiltAnew(m, u, t) == Dict(u, JStr(t), JNull, JNull)
\* lines 462-463
RefreshedMeta(m, u, t) == [m EXCEPT !.url = u, !.fetched_at = JStr(t)]

(***************************************************************************)
(* Results of a call.                                                      *)
(***************************************************************************)
NoResult == [kind |-> "none", content |-> <<>>]
Ret(c) == [kind |-> "return", content |-> c]
Raise == [kind |-> "raise", content |-> <<>>]

Procs == {1, 2}
NoResp == [content |-> <<>>, etag |-> JNull, last_modified |-> JNull]
NoPre == [body |-> None, meta |-> MetaAbsent]
NoOk == [valid |-> FALSE, t |-> 0, content |-> <<>>, url |-> NoUrl]


(***************************************************************************)
(* Strings of the parser, as sequences of characters.                      *)
(***************************************************************************)
BEGIN_VEVENT == <<"B", "E", "G", "I", "N", ":", "V", "E", "V", "E", "N", "T">>
END_VEVENT == <<"E", "N", "D", ":", "V", "E", "V", "E", "N", "T">>
K_SUMMARY == <<"S", "U", "M", "M", "A", "R", "Y">>
K_DESCRIPTION == <<"D", "E", "S", "C", "R", "I", "P", "T", "I", "O", "N">>
K_LOCATION == <<"L", "O", "C", "A", "T", "I", "O", "N">>
K_STATUS == <<"S", "T", "A", "T", "U", "S">>
K_UID == <<"U", "I", "D">>
K_ORGANIZER == <<"O", "R", "G", "A", "N", "I", "Z", "E", "R">>
K_ATTENDEE == <<"A", "T", "T", "E", "N", "D", "E", "E">>
K_DTSTART == <<"D", "T", "S", "T", "A", "R", "T">>
K_DTEND == <<"D", "T", "E", "N", "D">>
P_TZID == <<"T", "Z", "I", "D">>
P_CN == <<"C", "N">>

LowerAlpha == <<"a", "b", "c", "d", "e", "f", "g", "h", "i", "j", "k", "l", "m", "n", "o", "p", "q", "r", "s", "t", "u", "v", "w", "x", "y", "z">>
UpperAlpha == <<"A", "B", "C", "D", "E", "F", "G", "H", "I", "J", "K", "L", "M", "N", "O", "P", "Q", "R", "S", "T", "U", "V", "W", "X", "Y", "Z">>
DigitChars == <<"0", "1", "2", "3", "4", "5", "6", "7", "8", "9">>

\* str.upper()
UpperChar(c) ==
    IF \E i \in 1..26 : LowerAlpha[i] = c
    THEN UpperAlpha[CHOOSE i \in 1..26 : LowerAlpha[i] = c]
    ELSE c
Upper(s) == [i \in 1..Len(s) |-> UpperChar(s[i])]

DigitSet == {DigitChars[i] : i \in 1..10}
DigitMap == [c \in DigitSet |-> (CHOOSE i \in 1..10 : DigitChars[i] = c) - 1]
IsDigit(c) == c \in DigitSet
DigitVal(c) == DigitMap[c]
AllDigits(s) == \A i \in 1..Len(s) : IsDigit(s[i])
\* int() of a string of digits
RECURSIVE Num(_)
Num(s) == IF s = <<>> THEN 0 ELSE 10 * Num(SubSeq(s, 1, Len(s) - 1)) + DigitVal(s[Len(s)])
\* a number below 100 printed on two digits (%02d)
TwoDigits(n) == <<DigitChars[(n \div 10) + 1], DigitChars[(n % 10) + 1]>>

Contains(s, c) == \E i \in 1..Len(s) : s[i] = c
IndexOf(s, c) == CHOOSE i \in 1..Len(s) : s[i] = c /\ \A j \in 1..(i - 1) : s[j] # c
StartsWith(s, c) == Len(s) >= 1 /\ s[1] = c

\* str.partition(sep): the text before the first sep and the text after it
Before(s, c) == IF Contains(s, c) THEN SubSeq(s, 1, IndexOf(s, c) - 1) ELSE s
After(s, c) == IF Contains(s, c) THEN SubSeq(s, IndexOf(s, c) + 1, Len(s)) ELSE <<>>

\* str.split(sep)
RECURSIVE Split(_, _)
Split(s, c) == IF Contains(s, c) THEN <<Before(s, c)>> \o Split(After(s, c), c) ELSE <<s>>

\* str.strip(), for the white space used here
IsSpace(c) == c \in {" ", "\t", "\n", "\r"}
RECURSIVE LStrip(_)
LStrip(s) == IF s # <<>> /\ IsSpace(Head(s)) THEN LStrip(Tail(s)) ELSE s
RECURSIVE RStrip(_)
RStrip(s) == IF s # <<>> /\ IsSpace(s[Len(s)]) THEN RStrip(SubSeq(s, 1, Len(s) - 1)) ELSE s
Strip(s) == RStrip(LStrip(s))

(***************************************************************************)
(* unfold_ical_lines, lines 100-112.                                       *)
(***************************************************************************)
\* a continuation stripped of all its leading white space, not of one character
RECURSIVE UnfoldFrom_StripsAll(_, _)
UnfoldFrom_StripsAll(unfolded, raw) ==
    IF raw = <<>> THEN unfolded
    ELSE LET line == Head(raw) IN
         IF unfolded = <<>>
         THEN UnfoldFrom_StripsAll(<<line>>, Tail(raw))
         ELSE IF StartsWith(line, " ") \/ StartsWith(line, "\t")
              THEN UnfoldFrom_StripsAll([unfolded EXCEPT ![Len(unfolded)] = @ \o LStrip(line)], Tail(raw))
              ELSE UnfoldFrom_StripsAll(Append(unfolded, line), Tail(raw))

RECURSIVE UnfoldFrom(_, _)
UnfoldFrom(unfolded, raw) ==
    IF raw = <<>> THEN unfolded
    ELSE LET line == Head(raw) IN
         IF unfolded = <<>>
         THEN UnfoldFrom(<<line>>, Tail(raw))
         ELSE IF StartsWith(line, " ") \/ StartsWith(line, "\t")
              THEN UnfoldFrom([unfolded EXCEPT ![Len(unfolded)] = @ \o Tail(line)], Tail(raw))
              ELSE UnfoldFrom(Append(unfolded, line), Tail(raw))
unfold_ical_lines(raw_lines) == UnfoldFrom(<<>>, raw_lines)

(***************************************************************************)
(* unescape_ical_text, lines 115-122: five str.replace calls, each over    *)
(* the whole result of the one before.                                     *)
(***************************************************************************)
BS == "\\"
\* str.replace of the two-character string <<a, b>> by the string `by`,
\* left to right, without overlap
RECURSIVE Replace2(_, _, _, _)
Replace2(s, a, b, by) ==
    IF Len(s) < 2 THEN s
    ELSE IF s[1] = a /\ s[2] = b
         THEN by \o Replace2(SubSeq(s, 3, Len(s)), a, b, by)
         ELSE <<s[1]>> \o Replace2(Tail(s), a, b, by)

unescape_ical_text(value) ==
    Replace2(Replace2(Replace2(Replace2(Replace2(value,
        BS, BS, <<BS>>),
        BS, "n", <<LF>>),
        BS, "N", <<LF>>),
        BS, ",", <<",">>),
        BS, ";", <<";">>)

(***************************************************************************)
(* parse_property, lines 125-134.  params is the list of (NAME, value)     *)
(* pairs in the order they were set; the last pair of a name is its value. *)
(***************************************************************************)
RECURSIVE ParamsOf(_)
ParamsOf(parts) ==
    IF parts = <<>> THEN <<>>
    ELSE LET part == Head(parts) IN
         IF Contains(part, "=")
         THEN <<[name |-> Upper(Before(part, "=")), value |-> After(part, "=")]>>
              \o ParamsOf(Tail(parts))
         ELSE ParamsOf(Tail(parts))

parse_property(line) ==
    LET left == Before(line, ":")
        parts == Split(left, ";")
    IN [key |-> Upper(Head(parts)), params |-> ParamsOf(Tail(parts)),
        value |-> After(line, ":")]

\* params.get(name)
ParamGet(params, name) ==
    LET hits == {i \in 1..Len(params) : params[i].name = name} IN
    IF hits = {} THEN None
    ELSE Some(params[CHOOSE i \in hits : \A j \in hits : j <= i].value)

(***************************************************************************)
(* Dates.  A datetime is a record of its fields and its utc offset in      *)
(* minutes (None when naive).                                              *)
(***************************************************************************)
IsLeap(y) == (y % 4 = 0 /\ y % 100 # 0) \/ y % 400 = 0
DaysIn(y, m) ==
    IF m = 2 THEN (IF IsLeap(y) THEN 29 ELSE 28)
    ELSE IF m \in {4, 6, 9, 11} THEN 30 ELSE 31
ValidDate(y, m, d) == y >= 1 /\ m >= 1 /\ m <= 12 /\ d >= 1 /\ d <= DaysIn(y, m)
ValidTime(h, mi, sec) == h <= 23 /\ mi <= 59 /\ sec <= 59

MkDt(y, m, d, h, mi, sec, off) ==
    [year |-> y, month |-> m, day |-> d, hour |-> h, minute |-> mi, second |-> sec,
     offset |-> off]

\* ZoneInfo(tzid).utcoffset: the zones of the time-zone database used here;
\* any other key raises ZoneInfoNotFoundError
ZoneOffset(tzid) ==
    IF tzid = <<"U", "T", "C">> THEN Some(0)
    ELSE IF tzid = <<"E", "S", "T">> THEN Some(0 - 300)
    ELSE None

\* the utc offset as isoformat() prints it
OffsetText(off) ==
    IF off = None THEN <<>>
    ELSE LET mins == Get(off)
             a == IF mins < 0 THEN 0 - mins ELSE mins
         IN <<IF mins < 0 THEN "-" ELSE "+">> \o TwoDigits(a \div 60) \o <<":">>
            \o TwoDigits(a % 60)

\* DATE_RE, line 25
MatchesDate(v) == Len(v) = 8 /\ AllDigits(v)
\* DATETIME_RE, line 26
MatchesDateTime(v) ==
    /\ Len(v) \in {15, 16}
    /\ AllDigits(SubSeq(v, 1, 8))
    /\ v[9] = "T"
    /\ AllDigits(SubSeq(v, 10, 15))
    /\ Len(v) = 16 => v[16] = "Z"

DateIso(v) == SubSeq(v, 1, 4) \o <<"-">> \o SubSeq(v, 5, 6) \o <<"-">> \o SubSeq(v, 7, 8)
TimeIso(v) == SubSeq(v, 10, 11) \o <<":">> \o SubSeq(v, 12, 13) \o <<":">> \o SubSeq(v, 14, 15)

DtResult(r, sort_dt, iso, all_day) ==
    [raises |-> r, sort_dt |-> sort_dt, iso |-> iso, all_day |-> all_day]

\* parse_dt, lines 137-163; raises is strptime's ValueError
parse_dt(raw, params) ==
    LET value == Strip(raw)
        tzid == ParamGet(params, P_TZID)
        y == Num(SubSeq(value, 1, 4))
        m == Num(SubSeq(value, 5, 6))
        d == Num(SubSeq(value, 7, 8))
        h == Num(SubSeq(value, 10, 11))
        mi == Num(SubSeq(value, 12, 13))
        sec == Num(SubSeq(value, 14, 15))
    IN
    IF MatchesDate(value)
    THEN IF ~ValidDate(y, m, d) THEN DtResult(TRUE, None, None, FALSE)
         ELSE DtResult(FALSE, Some(MkDt(y, m, d, 0, 0, 0, None)), Some(DateIso(value)), TRUE)
    ELSE IF MatchesDateTime(value)
    THEN IF ~(ValidDate(y, m, d) /\ ValidTime(h, mi, sec))
         THEN DtResult(TRUE, None, None, FALSE)
         ELSE IF value[Len(value)] = "Z"
         THEN DtResult(FALSE, Some(MkDt(y, m, d, h, mi, sec, Some(0))),
                       Some(DateIso(value) \o <<"T">> \o TimeIso(value) \o OffsetText(Some(0))),
                       FALSE)
         ELSE LET off == IF tzid # None /\ Get(tzid) # <<>> THEN ZoneOffset(Get(tzid)) ELSE None
              IN DtResult(FALSE, Some(MkDt(y, m, d, h, mi, sec, off)),
                          Some(DateIso(value) \o <<"T">> \o TimeIso(value) \o OffsetText(off)),
                          FALSE)
    ELSE DtResult(FALSE, None, None, FALSE)

(***************************************************************************)
(* parse_ics_events, lines 166-231.                                        *)
(***************************************************************************)
\* lines 174-186
NewEvent ==
    [summary |-> None, start |-> None, end |-> None, all_day |-> FALSE,
     location |-> None, description |-> None, status |-> None, uid |-> None,
     organizer |-> None, attendees |-> <<>>, sort_start |-> None]

\* lines 228-229: event.pop("_sort_start", None)
Popped(e) == [f \in (DOMAIN e) \ {"sort_start"} |-> e[f]]

\* lines 214-218
AttendeeValue(params, raw_value) ==
    LET cn == ParamGet(params, P_CN) IN
    IF cn # None /\ Get(cn) # <<>>
    THEN Get(cn) \o <<" ", "<">> \o raw_value \o <<">">>
    ELSE raw_value

\* DTSTART handled as DTEND is: the flag and the sort key set, `start` not
WithStart_StartNotStored(cur, d) ==
    [cur EXCEPT !.all_day = d.all_day, !.sort_start = d.sort_dt]

\* lines 219-223
WithStart(cur, d) ==
    [cur EXCEPT !.start = d.iso, !.all_day = d.all_day, !.sort_start = d.sort_dt]
\* lines 224-226
WithEnd(cur, d) == [cur EXCEPT !.end = d.iso]

\* lines 201-226: the record after a property line that does not raise
Dispatch(cur, key, params, raw_value) ==
    IF key = K_SUMMARY THEN [cur EXCEPT !.summary = Some(raw_value)]
    ELSE IF key = K_DESCRIPTION THEN [cur EXCEPT !.description = Some(raw_value)]
    ELSE IF key = K_LOCATION THEN [cur EXCEPT !.location = Some(raw_value)]
    ELSE IF key = K_STATUS THEN [cur EXCEPT !.status = Some(raw_value)]
    ELSE IF key = K_UID THEN [cur EXCEPT !.uid = Some(raw_value)]
    ELSE IF key = K_ORGANIZER THEN [cur EXCEPT !.organizer = Some(raw_value)]
    ELSE IF key = K_ATTENDEE
         THEN [cur EXCEPT !.attendees = Append(@, AttendeeValue(params, raw_value))]
    ELSE IF key = K_DTSTART THEN WithStart(cur, parse_dt(raw_value, params))
    ELSE IF key = K_DTEND THEN WithEnd(cur, parse_dt(raw_value, params))
    ELSE cur

\* lines 219-226: the property line makes parse_dt raise
DispatchRaises(key, params, raw_value) ==
    key \in {K_DTSTART, K_DTEND} /\ parse_dt(raw_value, params).raises

\* what a record has seen of a date property: absent, unparsable, parsed
NothingSeen == [dtstart |-> "absent", dtend |-> "absent"]
SeenAfter(seen, key, params, raw_value) ==
    LET how == IF parse_dt(raw_value, params).iso = None THEN "unparsable" ELSE "parsed" IN
    IF key = K_DTSTART THEN [seen EXCEPT !.dtstart = how]
    ELSE IF key = K_DTEND THEN [seen EXCEPT !.dtend = how]
    ELSE seen

\* the physical lines an input text is made of
LineSamples ==
    { BEGIN_VEVENT,
      END_VEVENT,
      <<"D", "T", "S", "T", "A", "R", "T", ":", "2", "0", "2", "4", "0", "1", "1", "5">>,
      <<"D", "T", "S", "T", "A", "R", "T", ":", "2", "0", "2", "4", "1", "3", "4", "0">>,
      <<"D", "T", "E", "N", "D", ";", "T", "Z", "I", "D", "=", "E", "S", "T", ":", "2", "0", "2", "4", "0", "1", "1", "6", "T", "0", "9", "0", "0", "0", "0">>,
      <<"D", "T", "E", "N", "D", ":", "x">>,
      <<"S", "U", "M", "M", "A", "R", "Y", ":", "a", "\\", "\\", "n">>,
      <<"a", "t", "t", "e", "n", "d", "e", "e", ";", "c", "n", "=", "A", "l", ":", "m", "\\", ",", "x">>,
      <<" ", "x">> }

RECURSIVE Texts(_)
Texts(n) == IF n = 0 THEN {<<>>}
            ELSE Texts(n - 1) \cup {Append(t, l) : t \in Texts(n - 1), l \in LineSamples}

InitParseVars ==
    /\ text \in Texts(MaxLines)
    /\ lines = <<>>
    /\ idx = 0
    /\ events = <<>>
    /\ current = None
    /\ ppc = "start"
    /\ curSeen = NothingSeen
    /\ evSeen = <<>>

\* line 167
Unfold ==
    /\ ppc = "start"
    /\ lines' = unfold_ical_lines(text)
    /\ idx' = 1
    /\ ppc' = "loop"
    /\ UNCHANGED <<text, events, current, curSeen, evSeen>>
    /\ UNCHANGED otherThanParse

AtLine == ppc = "loop" /\ idx <= Len(lines)

\* BEGIN:VEVENT that opens a record only when none is open
BeginEvent_KeepsOpen ==
    /\ AtLine
    /\ lines[idx] = BEGIN_VEVENT
    /\ current' = IF current = None THEN Some(NewEvent) ELSE current
    /\ curSeen' = IF current = None THEN NothingSeen ELSE curSeen
    /\ idx' = idx + 1
    /\ UNCHANGED <<text, lines, events, ppc, evSeen>>
    /\ UNCHANGED otherThanParse

\* lines 173-187
BeginEvent ==
    /\ AtLine
    /\ lines[idx] = BEGIN_VEVENT
    /\ current' = Some(NewEvent)
    /\ curSeen' = NothingSeen
    /\ idx' = idx + 1
    /\ UNCHANGED <<text, lines, events, ppc, evSeen>>
    /\ UNCHANGED otherThanParse

\* END:VEVENT without the test of line 190: an empty record is appended when
\* none is open
EndEvent_AppendsAlways ==
    /\ AtLine
    /\ lines[idx] # BEGIN_VEVENT
    /\ lines[idx] = END_VEVENT
    /\ events' = Append(events, IF current # None THEN Get(current) ELSE NewEvent)
    /\ evSeen' = Append(evSeen, curSeen)
    /\ current' = None
    /\ curSeen' = NothingSeen
    /\ idx' = idx + 1
    /\ UNCHANGED <<text, lines, ppc>>
    /\ UNCHANGED otherThanParse

\* lines 189-193
EndEvent ==
    /\ AtLine
    /\ lines[idx] # BEGIN_VEVENT
    /\ lines[idx] = END_VEVENT
    /\ IF current # None
       THEN /\ events' = Append(events, Get(current))
            /\ evSeen' = Append(evSeen, curSeen)
       ELSE UNCHANGED <<events, evSeen>>
    /\ current' = None
    /\ curSeen' = NothingSeen
    /\ idx' = idx + 1
    /\ UNCHANGED <<text, lines, ppc>>
    /\ UNCHANGED otherThanParse

\* lines 195-196
SkipLine ==
    /\ AtLine
    /\ lines[idx] # BEGIN_VEVENT
    /\ lines[idx] # END_VEVENT
    /\ current = None \/ ~Contains(lines[idx], ":")
    /\ idx' = idx + 1
    /\ UNCHANGED <<text, lines, events, current, ppc, curSeen, evSeen>>
    /\ UNCHANGED otherThanParse

IsPropertyLine ==
    /\ AtLine
    /\ lines[idx] # BEGIN_VEVENT
    /\ lines[idx] # END_VEVENT
    /\ current # None
    /\ Contains(lines[idx], ":")

\* lines 198-226
PropertyLine ==
    /\ IsPropertyLine
    /\ LET prop == parse_property(lines[idx])
           raw_value == unescape_ical_text(prop.value)
       IN /\ ~DispatchRaises(prop.key, prop.params, raw_value)
          /\ current' = Some(Dispatch(Get(current), prop.key, prop.params, raw_value))
          /\ curSeen' = SeenAfter(curSeen, prop.key, prop.params, raw_value)
    /\ idx' = idx + 1
    /\ UNCHANGED <<text, lines, events, ppc, evSeen>>
    /\ UNCHANGED otherThanParse

\* lines 220, 225: strptime raises ValueError, which nothing catches
PropertyRaises ==
    /\ IsPropertyLine
    /\ LET prop == parse_property(lines[idx])
           raw_value == unescape_ical_text(prop.value)
       IN DispatchRaises(prop.key, prop.params, raw_value)
    /\ ppc' = "raised"
    /\ UNCHANGED <<text, lines, idx, events, current, curSeen, evSeen>>
    /\ UNCHANGED otherThanParse

\* lines 228-231
ReturnEvents ==
    /\ ppc = "loop"
    /\ idx > Len(lines)
    /\ events' = [i \in 1..Len(events) |-> Popped(events[i])]
    /\ ppc' = "returned"
    /\ UNCHANGED <<text, lines, idx, current, curSeen, evSeen>>
    /\ UNCHANGED otherThanParse

ParseStep ==
    \/ Unfold
    \/ BeginEvent
    \/ EndEvent
    \/ SkipLine
    \/ PropertyLine
    \/ PropertyRaises
    \/ ReturnEvents

(***************************************************************************)
(* unescape_ical_text applied to every short value over the characters it  *)
(* treats specially.                                                       *)
(***************************************************************************)
EscChars == {BS, "n", "N", ",", ";", "a"}
RECURSIVE Strings(_, _)
Strings(chars, n) ==
    IF n = 0 THEN {<<>>}
    ELSE Strings(chars, n - 1)
         \cup {Append(v, c) : v \in Strings(chars, n - 1), c \in chars}

InitEscVars == escIn \in Strings(EscChars, MaxEscLen) /\ escOut = None
IdleEsc == escIn = <<>> /\ escOut = None

Unescape ==
    /\ escOut = None
    /\ escOut' = Some(unescape_ical_text(escIn))
    /\ UNCHANGED escIn
    /\ UNCHANGED otherThanEsc

(***************************************************************************)
(* Instants: seconds since 2000-01-01T00:00:00Z.                           *)
(***************************************************************************)
\* the day number of a calendar date (date.toordinal, up to a constant)
DayNumber(y, m, d) ==
    LET a == (14 - m) \div 12
        yy == y + 4800 - a
        mm == m + 12 * a - 3
    IN d + (153 * mm + 2) \div 5 + 365 * yy + yy \div 4 - yy \div 100 + yy \div 400 - 32045
Instant(y, m, d, h, mi, sec, offMinutes) ==
    (DayNumber(y, m, d) - DayNumber(2000, 1, 1)) * 86400
    + h * 3600 + mi * 60 + sec - offMinutes * 60

\* "YYYY-MM-DD"
IsIsoDate(v) ==
    /\ Len(v) = 10
    /\ AllDigits(SubSeq(v, 1, 4)) /\ v[5] = "-"
    /\ AllDigits(SubSeq(v, 6, 7)) /\ v[8] = "-"
    /\ AllDigits(SubSeq(v, 9, 10))
    /\ ValidDate(Num(SubSeq(v, 1, 4)), Num(SubSeq(v, 6, 7)), Num(SubSeq(v, 9, 10)))
\* "HH:MM:SS"
IsIsoTime(v) ==
    /\ Len(v) = 8
    /\ AllDigits(SubSeq(v, 1, 2)) /\ v[3] = ":"
    /\ AllDigits(SubSeq(v, 4, 5)) /\ v[6] = ":"
    /\ AllDigits(SubSeq(v, 7, 8))
    /\ ValidTime(Num(SubSeq(v, 1, 2)), Num(SubSeq(v, 4, 5)), Num(SubSeq(v, 7, 8)))
\* "+HH:MM" or "-HH:MM"
IsIsoOffset(v) ==
    /\ Len(v) = 6
    /\ v[1] \in {"+", "-"}
    /\ AllDigits(SubSeq(v, 2, 3)) /\ v[4] = ":"
    /\ AllDigits(SubSeq(v, 5, 6))
    /\ Num(SubSeq(v, 2, 3)) <= 23 /\ Num(SubSeq(v, 5, 6)) <= 59
IsoOffsetMinutes(v) ==
    LET mins == Num(SubSeq(v, 2, 3)) * 60 + Num(SubSeq(v, 5, 6)) IN
    IF v[1] = "-" THEN 0 - mins ELSE mins

\* date.fromisoformat(v) for a 10-character v, at midnight utc (lines 249-250,
\* 265-266); None when it raises
DateAtUtcMidnight(v) ==
    IF IsIsoDate(v)
    THEN Some(Instant(Num(SubSeq(v, 1, 4)), Num(SubSeq(v, 6, 7)), Num(SubSeq(v, 9, 10)),
                      0, 0, 0, 0))
    ELSE None

\* dt.datetime.fromisoformat(v), utc when naive (lines 251-254, 267-270), for
\* the forms isoformat() prints: "YYYY-MM-DDTHH:MM:SS" with or without an
\* offset; None when it raises
DateTimeAssumingUtc(v) ==
    IF /\ Len(v) \in {19, 25}
       /\ IsIsoDate(SubSeq(v, 1, 10))
       /\ v[11] = "T"
       /\ IsIsoTime(SubSeq(v, 12, 19))
       /\ Len(v) = 25 => IsIsoOffset(SubSeq(v, 20, 25))
    THEN Some(Instant(Num(SubSeq(v, 1, 4)), Num(SubSeq(v, 6, 7)), Num(SubSeq(v, 9, 10)),
                      Num(SubSeq(v, 12, 13)), Num(SubSeq(v, 15, 16)), Num(SubSeq(v, 18, 19)),
                      IF Len(v) = 25 THEN IsoOffsetMinutes(SubSeq(v, 20, 25)) ELSE 0))
    ELSE None

\* lines 247-256 and 263-272: the try block of both normalizers
ResolveIso(v) == IF Len(v) = 10 THEN DateAtUtcMidnight(v) ELSE DateTimeAssumingUtc(v)

\* the events given to the filter: start and end as parse_ics_events leaves
\* them (None, a date, a datetime with or without offset), or a string that
\* is no date
MkEvent(u, s, e) == [uid |-> u, start |-> s, end |-> e, is_ongoing |-> None]
EventSamples ==
    { MkEvent("A", Some(<<"2", "0", "2", "4", "-", "0", "1", "-", "1", "0">>), Some(<<"2", "0", "2", "4", "-", "0", "1", "-", "2", "0">>)),
      MkEvent("B", Some(<<"2", "0", "2", "4", "-", "0", "1", "-", "1", "4">>), None),
      MkEvent("C", Some(<<"2", "0", "2", "4", "-", "0", "1", "-", "1", "5", "T", "0", "9", ":", "0", "0", ":", "0", "0", "+", "0", "0", ":", "0", "0">>), Some(<<"2", "0", "2", "4", "-", "0", "1", "-", "1", "5", "T", "1", "0", ":", "0", "0", ":", "0", "0", "+", "0", "0", ":", "0", "0">>)),
      MkEvent("D", None, Some(<<"2", "0", "2", "4", "-", "0", "1", "-", "1", "6">>)),
      MkEvent("E", Some(<<"2", "0", "2", "4", "-", "0", "1", "-", "1", "5", "T", "0", "4", ":", "0", "0", ":", "0", "0", "-", "0", "5", ":", "0", "0">>), Some(<<"x">>)),
      MkEvent("F", Some(<<"2", "0", "2", "4", "-", "0", "1", "-", "1", "6", "T", "0", "8", ":", "0", "0", ":", "0", "0">>), Some(<<"2", "0", "2", "4", "-", "0", "1", "-", "1", "5", "T", "0", "8", ":", "0", "0", ":", "0", "0">>)),
      MkEvent("G", Some(<<"x">>), None) }

\* ResolveIso of the strings of EventSamples, computed once
SampleIsoStrings ==
    {Get(e.start) : e \in {x \in EventSamples : x.start # None}}
    \cup {Get(e.end) : e \in {x \in EventSamples : x.end # None}}
\* the ISO strings parse_dt makes of the date lines of LineSamples
DateLines ==
    {l \in LineSamples : Contains(l, ":") /\ parse_property(l).key \in {K_DTSTART, K_DTEND}}
LineDates ==
    {parse_dt(unescape_ical_text(parse_property(l).value), parse_property(l).params) : l \in DateLines}
LineIsoStrings == {Get(d.iso) : d \in {x \in LineDates : ~x.raises /\ x.iso # None}}
KnownIsoStrings == SampleIsoStrings \cup LineIsoStrings
IsoTable == [v \in KnownIsoStrings |-> ResolveIso(v)]
Resolved(v) == IF v \in KnownIsoStrings THEN IsoTable[v] ELSE ResolveIso(v)

\* normalize_event_start, lines 243-256
normalize_event_start(event) ==
    IF event.start = None THEN None ELSE Resolved(Get(event.start))

\* normalize_event_end that gives up where the code falls back to the start
normalize_event_end_NoFallback(event) ==
    IF event.end = None THEN None ELSE Resolved(Get(event.end))

\* normalize_event_end whose except branch returns None
normalize_event_end_UnparsableGivesUp(event) ==
    IF event.end = None THEN normalize_event_start(event)
    ELSE Resolved(Get(event.end))

\* normalize_event_end, lines 259-272
normalize_event_end(event) ==
    IF event.end = None THEN normalize_event_start(event)
    ELSE IF Resolved(Get(event.end)) = None THEN normalize_event_start(event)
    ELSE Resolved(Get(event.end))

(***************************************************************************)
(* filter_events, lines 311-338.                                           *)
(***************************************************************************)
\* the overlap test replaced by a comparison of the start alone
Overlaps_StartOnly(start, end, aft, bef) ==
    /\ ~(aft # None /\ start < Get(aft))
    /\ ~(bef # None /\ start > Get(bef))

\* lines 326-329: the overlap test on the resolved start and end
Overlaps(start, end, aft, bef) ==
    /\ ~(aft # None /\ end < Get(aft))
    /\ ~(bef # None /\ start > Get(bef))

\* line 331
IsOngoing(start, end, t) == start <= t /\ t <= end

\* the loop body with a missing `after` taken to be the current instant
LoopBody_AfterDefaultsToNow(event, aft, bef, t) ==
    LET start == normalize_event_start(event)
        end == normalize_event_end(event)
        from == IF aft = None THEN Some(t) ELSE aft
    IN IF start = None \/ end = None
       THEN [event |-> event, pair |-> None]
       ELSE IF ~Overlaps(Get(start), Get(end), from, bef)
       THEN [event |-> event, pair |-> None]
       ELSE LET marked == [event EXCEPT !.is_ongoing = Some(IsOngoing(Get(start), Get(end), t))]
            IN [event |-> marked, pair |-> Some([key |-> Get(start), event |-> marked])]

\* lines 319-332, for one event: the dict after the loop body, and the pair
\* appended to `annotated` (None when the event is skipped)
LoopBody(event, aft, bef, t) ==
    LET start == normalize_event_start(event)
        end == normalize_event_end(event)
    IN IF start = None \/ end = None
       THEN [event |-> event, pair |-> None]
       ELSE IF ~Overlaps(Get(start), Get(end), aft, bef)
       THEN [event |-> event, pair |-> None]
       ELSE LET marked == [event EXCEPT !.is_ongoing = Some(IsOngoing(Get(start), Get(end), t))]
            IN [event |-> marked, pair |-> Some([key |-> Get(start), event |-> marked])]

\* lines 317-332: the loop over the list
Loop(evs, aft, bef, t) == [i \in 1..Len(evs) |-> LoopBody(evs[i], aft, bef, t)]

RECURSIVE PairsOf(_)
PairsOf(looped) ==
    IF looped = <<>> THEN <<>>
    ELSE IF Head(looped).pair = None THEN PairsOf(Tail(looped))
         ELSE <<Get(Head(looped).pair)>> \o PairsOf(Tail(looped))

\* line 334: annotated.sort(key=lambda pair: pair[0]) is stable; an insertion
\* sort that puts a pair after the pairs whose key is not greater
RECURSIVE InsertByKey(_, _)
InsertByKey(sorted, pair) ==
    IF sorted = <<>> THEN <<pair>>
    ELSE IF pair.key < sorted[Len(sorted)].key
         THEN Append(InsertByKey(SubSeq(sorted, 1, Len(sorted) - 1), pair), sorted[Len(sorted)])
         ELSE Append(sorted, pair)
RECURSIVE SortByKey(_)
SortByKey(pairs) ==
    IF pairs = <<>> THEN <<>>
    ELSE InsertByKey(SortByKey(SubSeq(pairs, 1, Len(pairs) - 1)), pairs[Len(pairs)])

\* the slice taken from the end of the list instead of its start
Truncated_KeepsLast(evs, lim) ==
    IF lim = None THEN evs
    ELSE IF Get(lim) >= 0
         THEN SubSeq(evs, (IF Get(lim) < Len(evs) THEN Len(evs) - Get(lim) ELSE 0) + 1, Len(evs))
         ELSE SubSeq(evs, 1, Len(evs) + Get(lim))

\* lines 336-337: filtered[:limit]
Truncated(evs, lim) ==
    IF lim = None THEN evs
    ELSE IF Get(lim) >= 0
         THEN SubSeq(evs, 1, IF Get(lim) < Len(evs) THEN Get(lim) ELSE Len(evs))
         ELSE SubSeq(evs, 1, Len(evs) + Get(lim))

\* lines 334-338, from the dicts and pairs the loop left
FilteredOf(looped, lim) ==
    LET sorted == SortByKey(PairsOf(looped)) IN
    Truncated([i \in 1..Len(sorted) |-> sorted[i].event], lim)

filter_events(evs, aft, bef, lim, t) == FilteredOf(Loop(evs, aft, bef, t), lim)

RECURSIVE EventLists(_)
EventLists(n) ==
    IF n = 0 THEN {<<>>}
    ELSE EventLists(n - 1) \cup {Append(l, e) : l \in EventLists(n - 1), e \in EventSamples}

\* the instants of --after, --before and of the clock
T_Jan15 == Instant(2024, 1, 15, 0, 0, 0, 0)
T_Jan15_0900 == Instant(2024, 1, 15, 9, 0, 0, 0)
T_Jan15_0930 == Instant(2024, 1, 15, 9, 30, 0, 0)
T_Jan17 == Instant(2024, 1, 17, 0, 0, 0, 0)
AfterInstants == {None, Some(T_Jan15), Some(T_Jan15_0900)}
BeforeInstants == {None, Some(T_Jan15_0900)}
ClockInstants == <<T_Jan15_0930, T_Jan17>>
Limits == {None} \cup {Some(n) : n \in 0..MaxLimit}

InitFilterVars ==
    /\ evList \in EventLists(MaxEvents)
    /\ given = evList
    /\ after \in AfterInstants
    /\ before \in BeforeInstants
    /\ limit \in Limits
    /\ fnow = 1
    /\ filtered = <<>>
    /\ firstOut = <<>>
    /\ calledAt = 0
    /\ calls = 0

IdleFilter ==
    /\ evList = <<>> /\ given = <<>> /\ after = None /\ before = None /\ limit = None
    /\ fnow = 1 /\ filtered = <<>> /\ firstOut = <<>> /\ calledAt = 0 /\ calls = 0

\* time passes between two calls
TimePasses ==
    /\ calls = 1
    /\ fnow < Len(ClockInstants)
    /\ fnow' = fnow + 1
    /\ UNCHANGED <<evList, given, after, before, limit, filtered, firstOut, calledAt, calls>>
    /\ UNCHANGED otherThanFilter

\* line 570, made twice with the same arguments
CallFilter ==
    /\ calls < 2
    /\ LET looped == Loop(evList, after, before, ClockInstants[fnow]) IN
          /\ filtered' = FilteredOf(looped, limit)
          /\ evList' = [i \in 1..Len(looped) |-> looped[i].event]
    /\ firstOut' = IF calls = 0 THEN filtered' ELSE firstOut
    /\ calledAt' = fnow
    /\ calls' = calls + 1
    /\ UNCHANGED <<given, after, before, limit, fnow>>
    /\ UNCHANGED otherThanFilter

(***************************************************************************)
(* The cache directory when the program starts: empty, a well-formed entry *)
(* left by an earlier run, or an entry that was damaged since.             *)
(***************************************************************************)
FeedUrl == MkUrl("https", FeedRest)
FeedKey == url_cache_key(FeedUrl)
OldBody == Decode(SrvBytes(1))
OldMeta == Dict(FeedUrl, JStr(0), SrvEtag(1), SrvLastModified(1))

CacheSamples ==
    { [body |-> None,          meta |-> MetaAbsent],
      [body |-> Some(OldBody), meta |-> OldMeta],
      [body |-> None,          meta |-> OldMeta],
      [body |-> Some(OldBody), meta |-> MetaAbsent],
      [body |-> Some(OldBody), meta |-> MetaUnreadable],
      [body |-> Some(OldBody), meta |-> MetaNotDict],
      [body |-> Some(OldBody), meta |-> [OldMeta EXCEPT !.fetched_at = JNum(0)]],
      [body |-> Some(OldBody), meta |-> [OldMeta EXCEPT !.fetched_at = JStr(BadIso)]],
      [body |-> Some(OldBody), meta |-> [OldMeta EXCEPT !.fetched_at = JNull]],
      [body |-> Some(OldBody), meta |-> [OldMeta EXCEPT !.etag = JStr(EmptyStr),
                                                        !.last_modified = JNull]],
      [body |-> Some(OldBody), meta |-> [OldMeta EXCEPT !.etag = JNum(1)]] }

InitProcs ==
    /\ pc = [p \in Procs |-> "idle"]
    /\ url = [p \in Procs |-> NoUrl]
    /\ ttl = [p \in Procs |-> 0]
    /\ now = [p \in Procs |-> 0]
    /\ meta = [p \in Procs |-> EmptyDict]
    /\ resp = [p \in Procs |-> NoResp]
    /\ result = [p \in Procs |-> NoResult]
    /\ outcome = [p \in Procs |-> "none"]
    /\ netCalls = [p \in Procs |-> 0]
    /\ respTime = [p \in Procs |-> 0]
    /\ pre = [p \in Procs |-> NoPre]
    /\ lastOk = NoOk

InitFetchVars ==
    /\ clock = 0
    /\ srvVer = 1
    /\ \E c \in CacheSamples :
          /\ bodyFile = [k \in Keys |-> IF k = FeedKey THEN c.body ELSE None]
          /\ metaFile = [k \in Keys |-> IF k = FeedKey THEN c.meta ELSE MetaAbsent]
    /\ InitProcs

\* the parts of the program a specification does not run
IdleParse ==
    /\ text = <<>> /\ lines = <<>> /\ idx = 0 /\ events = <<>> /\ current = None
    /\ ppc = "off" /\ curSeen = NothingSeen /\ evSeen = <<>>

InitFetch == InitFetchVars /\ IdleParse /\ IdleEsc /\ IdleFilter

\* two invocations start on an empty cache directory
InitRaceVars ==
    /\ clock = 0
    /\ srvVer = 1
    /\ bodyFile = [k \in Keys |-> None]
    /\ metaFile = [k \in Keys |-> MetaAbsent]
    /\ InitProcs

InitRace == InitRaceVars /\ IdleParse /\ IdleEsc /\ IdleFilter

IdleFetch ==
    /\ clock = 0
    /\ srvVer = 1
    /\ bodyFile = [k \in Keys |-> None]
    /\ metaFile = [k \in Keys |-> MetaAbsent]
    /\ InitProcs

(***************************************************************************)
(* The environment: time passes, the server publishes a new version.       *)
(***************************************************************************)
Tick ==
    /\ clock < MaxClock
    /\ clock' = clock + 1
    /\ UNCHANGED <<srvVer, bodyFile, metaFile, pc, url, ttl, now, meta, resp,
                   result, outcome, netCalls, respTime, pre, lastOk>>
    /\ UNCHANGED otherThanFetch

Publish ==
    /\ srvVer < MaxVer
    /\ srvVer' = srvVer + 1
    /\ UNCHANGED <<clock, bodyFile, metaFile, pc, url, ttl, now, meta, resp,
                   result, outcome, netCalls, respTime, pre, lastOk>>
    /\ UNCHANGED otherThanFetch

(***************************************************************************)
(* main, lines 559-565: one url of ICS_URLS is normalized and fetched.     *)
(* fetch_ics_url_content, lines 415-437: up to the request.                *)
(***************************************************************************)
Key(p) == url_cache_key(url[p])

\* the locals every call sets when it starts
Enter(p, u, t) ==
    /\ pc[p] = "idle"
    /\ url' = [url EXCEPT ![p] = normalize_calendar_url(u)]
    /\ ttl' = [ttl EXCEPT ![p] = t]
    /\ pre' = [pre EXCEPT ![p] = [body |-> bodyFile[url_cache_key(url'[p])],
                                  meta |-> metaFile[url_cache_key(url'[p])]]]
    /\ netCalls' = [netCalls EXCEPT ![p] = 0]
    /\ respTime' = [respTime EXCEPT ![p] = 0]
    /\ resp' = [resp EXCEPT ![p] = NoResp]
    /\ UNCHANGED <<clock, srvVer, bodyFile, metaFile, lastOk>>

\* the test of line 416 written `cache_ttl < 0`: a TTL of zero takes the
\* path through the cache
StartDirect_ThroughCache(p) ==
    \E u \in InputUrls :
       /\ UNCHANGED otherThanFetch
       /\ Enter(p, u, 0)
       /\ LET m == LoadMeta(metaFile[url_cache_key(url'[p])])
          IN /\ m.kind = "dict"
             /\ meta' = [meta EXCEPT ![p] = m]
             /\ now' = [now EXCEPT ![p] = clock]
             /\ pc' = [pc EXCEPT ![p] = "request"]
             /\ UNCHANGED <<result, outcome>>

\* lines 416-418: cache_ttl <= 0, the url is opened directly
StartDirect(p) ==
    \E u \in InputUrls :
       /\ UNCHANGED otherThanFetch
       /\ Enter(p, u, 0)
       /\ pc' = [pc EXCEPT ![p] = "direct"]
       /\ UNCHANGED <<now, meta, result, outcome>>

\* line 433: json.loads gave a value that is no dict, meta.get raises
MetaNotDictError(p) ==
    \E u \in InputUrls, t \in 1..MaxTtl :
       /\ UNCHANGED otherThanFetch
       /\ Enter(p, u, t)
       /\ LoadMeta(metaFile[url_cache_key(url'[p])]).kind = "nondict"
       /\ meta' = [meta EXCEPT ![p] = LoadMeta(metaFile[url_cache_key(url'[p])])]
       /\ result' = [result EXCEPT ![p] = Raise]
       /\ outcome' = [outcome EXCEPT ![p] = "meta_error"]
       /\ pc' = [pc EXCEPT ![p] = "done"]
       /\ UNCHANGED now

\* lines 434-437: the cached body is fresh and is returned
ServeFresh(p) ==
    \E u \in InputUrls, t \in 1..MaxTtl :
       /\ UNCHANGED otherThanFetch
       /\ Enter(p, u, t)
       /\ LET k == url_cache_key(url'[p])
              m == LoadMeta(metaFile[k])
          IN /\ m.kind = "dict"
             /\ IsFresh(bodyFile[k], m, clock, t)
             /\ meta' = [meta EXCEPT ![p] = m]
             /\ now' = [now EXCEPT ![p] = clock]
             /\ result' = [result EXCEPT ![p] = Ret(ReadText(Get(bodyFile[k])))]
             /\ outcome' = [outcome EXCEPT ![p] = "fresh"]
             /\ pc' = [pc EXCEPT ![p] = "done"]

\* lines 439-449: no fresh body, the (conditional) request is sent
SendRequest(p) ==
    \E u \in InputUrls, t \in 1..MaxTtl :
       /\ UNCHANGED otherThanFetch
       /\ Enter(p, u, t)
       /\ LET k == url_cache_key(url'[p])
              m == LoadMeta(metaFile[k])
          IN /\ m.kind = "dict"
             /\ ~IsFresh(bodyFile[k], m, clock, t)
             /\ meta' = [meta EXCEPT ![p] = m]
             /\ now' = [now EXCEPT ![p] = clock]
             /\ pc' = [pc EXCEPT ![p] = "request"]
             /\ UNCHANGED <<result, outcome>>

(***************************************************************************)
(* The answers to the request.  A request is answered 304 only when it     *)
(* carries a validator of the version the server serves; it may always be  *)
(* answered 200, with an HTTP error status, or not at all.                 *)
(***************************************************************************)
Validates(h) ==
    \/ h.if_none_match = Some(SrvEtag(srvVer).v)
    \/ h.if_modified_since = Some(SrvLastModified(srvVer).v)

Response(v) ==
    [content |-> Decode(SrvBytes(v)), etag |-> SrvEtag(v),
     last_modified |-> SrvLastModified(v)]

Answered(p, how) ==
    /\ netCalls' = [netCalls EXCEPT ![p] = @ + 1]
    /\ respTime' = [respTime EXCEPT ![p] = clock]
    /\ outcome' = [outcome EXCEPT ![p] = how]

\* line 417: urlopen(url) is given the url alone, no header
DirectHeaders == NoHeaders

\* line 418: the direct fetch returns the decoded response
DirectOk(p) ==
    /\ pc[p] = "direct"
    /\ Answered(p, "ok200")
    /\ result' = [result EXCEPT ![p] = Ret(Decode(SrvBytes(srvVer)))]
    /\ pc' = [pc EXCEPT ![p] = "done"]
    /\ UNCHANGED <<clock, srvVer, bodyFile, metaFile, url, ttl, now, meta, resp,
                   pre, lastOk>>
    /\ UNCHANGED otherThanFetch

\* line 417: urlopen raises, nothing catches it
DirectFail(p) ==
    /\ pc[p] = "direct"
    /\ \E how \in {"http_error", "net_error"}
                   \cup (IF Validates(DirectHeaders) THEN {"not_modified"} ELSE {}) :
          Answered(p, how)
    /\ result' = [result EXCEPT ![p] = Raise]
    /\ pc' = [pc EXCEPT ![p] = "done"]
    /\ UNCHANGED <<clock, srvVer, bodyFile, metaFile, url, ttl, now, meta, resp,
                   pre, lastOk>>
    /\ UNCHANGED otherThanFetch

\* lines 449-450: a 200 response is read and decoded
Respond200(p) ==
    /\ pc[p] = "request"
    /\ Answered(p, "ok200")
    /\ resp' = [resp EXCEPT ![p] = Response(srvVer)]
    /\ pc' = [pc EXCEPT ![p] = "write_body"]
    /\ UNCHANGED <<clock, srvVer, bodyFile, metaFile, url, ttl, now, meta, result,
                   pre, lastOk>>
    /\ UNCHANGED otherThanFetch

\* line 451
WriteBody(p) ==
    /\ pc[p] = "write_body"
    /\ bodyFile' = [bodyFile EXCEPT ![Key(p)] = Some(resp[p].content)]
    /\ pc' = [pc EXCEPT ![p] = "write_meta"]
    /\ UNCHANGED <<clock, srvVer, metaFile, url, ttl, now, meta, resp, result,
                   outcome, netCalls, respTime, pre, lastOk>>
    /\ UNCHANGED otherThanFetch

\* lines 452-459
WriteMeta(p) ==
    /\ pc[p] = "write_meta"
    /\ metaFile' = [metaFile EXCEPT ![Key(p)] = updated_meta(url[p], now[p], resp[p])]
    /\ result' = [result EXCEPT ![p] = Ret(resp[p].content)]
    /\ pc' = [pc EXCEPT ![p] = "done"]
    /\ UNCHANGED <<clock, srvVer, bodyFile, url, ttl, now, meta, resp,
                   outcome, netCalls, respTime, pre, lastOk>>
    /\ UNCHANGED otherThanFetch

\* lines 460-461, 466: HTTPError 304; without a body file it is raised again
Respond304(p) ==
    /\ pc[p] = "request"
    /\ Validates(RequestHeaders(meta[p]))
    /\ Answered(p, "not_modified")
    /\ IF bodyFile[Key(p)] # None
       THEN /\ pc' = [pc EXCEPT ![p] = "refresh"]
            /\ UNCHANGED result
       ELSE /\ pc' = [pc EXCEPT ![p] = "done"]
            /\ result' = [result EXCEPT ![p] = Raise]
    /\ UNCHANGED <<clock, srvVer, bodyFile, metaFile, url, ttl, now, meta, resp,
                   pre, lastOk>>
    /\ UNCHANGED otherThanFetch

\* lines 462-465
RefreshMeta(p) ==
    /\ pc[p] = "refresh"
    /\ metaFile' = [metaFile EXCEPT ![Key(p)] = RefreshedMeta(meta[p], url[p], now[p])]
    /\ result' = [result EXCEPT ![p] = Ret(ReadText(Get(bodyFile[Key(p)])))]
    /\ pc' = [pc EXCEPT ![p] = "done"]
    /\ UNCHANGED <<clock, srvVer, bodyFile, url, ttl, now, meta, resp,
                   outcome, netCalls, respTime, pre, lastOk>>
    /\ UNCHANGED otherThanFetch

\* what the handlers of lines 460-474 do with an exception of urlopen:
\* an HTTPError is caught by the first handler, which raises it again unless
\* it is a 304 with a body file; the second handler sees only the others
OnHttpError(body) == Raise
OnOtherError(body) == IF body # None THEN Ret(ReadText(Get(body))) ELSE Raise

\* lines 460-461, 466: HTTPError with a status other than 304 (404, 500)
RespondHttpError(p) ==
    /\ pc[p] = "request"
    /\ Answered(p, "http_error")
    /\ result' = [result EXCEPT ![p] = OnHttpError(bodyFile[Key(p)])]
    /\ pc' = [pc EXCEPT ![p] = "done"]
    /\ UNCHANGED <<clock, srvVer, bodyFile, metaFile, url, ttl, now, meta, resp,
                   pre, lastOk>>
    /\ UNCHANGED otherThanFetch

\* the fallback made to stamp the metadata as the 304 branch does
RespondNetError_StampsMeta(p) ==
    /\ pc[p] = "request"
    /\ Answered(p, "net_error")
    /\ result' = [result EXCEPT ![p] = OnOtherError(bodyFile[Key(p)])]
    /\ metaFile' = IF bodyFile[Key(p)] # None
                   THEN [metaFile EXCEPT ![Key(p)] = RefreshedMeta(meta[p], url[p], now[p])]
                   ELSE metaFile
    /\ pc' = [pc EXCEPT ![p] = "done"]
    /\ UNCHANGED <<clock, srvVer, bodyFile, url, ttl, now, meta, resp, pre, lastOk>>
    /\ UNCHANGED otherThanFetch

\* lines 467-474: URLError, a timeout, a reset connection
RespondNetError(p) ==
    /\ pc[p] = "request"
    /\ Answered(p, "net_error")
    /\ result' = [result EXCEPT ![p] = OnOtherError(bodyFile[Key(p)])]
    /\ pc' = [pc EXCEPT ![p] = "done"]
    /\ UNCHANGED <<clock, srvVer, bodyFile, metaFile, url, ttl, now, meta, resp,
                   pre, lastOk>>
    /\ UNCHANGED otherThanFetch

\* the call is over: main goes on (or, on an exception, the program ends and
\* is started again later); the locals of the call are gone
Forget(p) ==
    /\ url' = [url EXCEPT ![p] = NoUrl]
    /\ ttl' = [ttl EXCEPT ![p] = 0]
    /\ now' = [now EXCEPT ![p] = 0]
    /\ meta' = [meta EXCEPT ![p] = EmptyDict]
    /\ resp' = [resp EXCEPT ![p] = NoResp]
    /\ result' = [result EXCEPT ![p] = NoResult]
    /\ outcome' = [outcome EXCEPT ![p] = "none"]
    /\ netCalls' = [netCalls EXCEPT ![p] = 0]
    /\ respTime' = [respTime EXCEPT ![p] = 0]
    /\ pre' = [pre EXCEPT ![p] = NoPre]

Finish(p) ==
    /\ pc[p] = "done"
    /\ pc' = [pc EXCEPT ![p] = "idle"]
    /\ lastOk' = IF /\ ttl[p] > 0
                    /\ outcome[p] \in {"ok200", "not_modified"}
                    /\ result[p].kind = "return"
                 THEN [valid |-> TRUE, t |-> respTime[p],
                       content |-> result[p].content, url |-> url[p]]
                 ELSE lastOk
    /\ Forget(p)
    /\ UNCHANGED <<clock, srvVer, bodyFile, metaFile>>
    /\ UNCHANGED otherThanFetch

\* the invocation ends and is not started again
Exit(p) ==
    /\ pc[p] = "done"
    /\ pc' = [pc EXCEPT ![p] = "exited"]
    /\ Forget(p)
    /\ UNCHANGED <<clock, srvVer, bodyFile, metaFile, lastOk>>
    /\ UNCHANGED otherThanFetch

FetchStep(p) ==
    \/ StartDirect(p)
    \/ MetaNotDictError(p)
    \/ ServeFresh(p)
    \/ SendRequest(p)
    \/ DirectOk(p)
    \/ DirectFail(p)
    \/ Respond200(p)
    \/ WriteBody(p)
    \/ WriteMeta(p)
    \/ Respond304(p)
    \/ RefreshMeta(p)
    \/ RespondHttpError(p)
    \/ RespondNetError(p)
    \/ Finish(p)

\* the invocations of the program run one after the other
Next == Tick \/ Publish \/ FetchStep(1)
Spec == InitFetch /\ [][Next]_vars

\* two invocations, each fetching the feed once with the cache enabled, run
\* at once against the same cache directory
RaceStep(p) ==
    \/ ServeFresh(p)
    \/ SendRequest(p)
    \/ Respond200(p)
    \/ WriteBody(p)
    \/ WriteMeta(p)
    \/ Respond304(p)
    \/ RefreshMeta(p)
    \/ RespondHttpError(p)
    \/ RespondNetError(p)
    \/ Exit(p)
NextRace == Tick \/ Publish \/ \E p \in Procs : RaceStep(p)
SpecRace == InitRace /\ [][NextRace]_vars

\* parse_ics_events runs on one input text
NextParse == ParseStep
InitParse == IdleFetch /\ InitParseVars /\ IdleEsc /\ IdleFilter
SpecParse == InitParse /\ [][NextParse]_vars

\* unescape_ical_text is called on one value
NextUnescape == Unescape
InitUnescape == IdleFetch /\ IdleParse /\ InitEscVars /\ IdleFilter
SpecUnescape == InitUnescape /\ [][NextUnescape]_vars

\* filter_events is called, and called again with the same arguments
NextFilter == TimePasses \/ CallFilter
InitFilter == IdleFetch /\ IdleParse /\ IdleEsc /\ InitFilterVars
SpecFilter == InitFilter /\ [][NextFilter]_vars

(***************************************************************************)
(* Properties of the fetch cache.                                          *)
(***************************************************************************)
Quiet == \A p \in Procs : pc[p] \in {"idle", "exited"}

\* C1: a call with TTL > 0 that finds a cached body which is not fresh, and
\* whose request fails with an HTTP error status other than 304 or with a
\* network error, returns the cached body and does not raise.
C1_StaleBodyOnAnyFailure ==
    \A p \in Procs :
       ( /\ pc[p] = "done"
         /\ ttl[p] > 0
         /\ outcome[p] \in {"http_error", "net_error"}
         /\ pre[p].body # None )
       => result[p] = Ret(ReadText(Get(pre[p].body)))

\* C2: after a call was answered 200 or 304 at time t, a later call for the
\* same normalized url with TTL > 0, made no later than t + TTL, makes no
\* network request and returns the content the earlier call returned.
C2_SecondFetchWithinTtl ==
    \A p \in Procs :
       ( /\ pc[p] # "idle"
         /\ ttl[p] > 0
         /\ outcome[p] # "meta_error"
         /\ lastOk.valid
         /\ lastOk.url = url[p]
         /\ now[p] <= lastOk.t + ttl[p] )
       => /\ pc[p] = "done"
          /\ netCalls[p] = 0
          /\ result[p] = Ret(lastOk.content)

\* the metadata file cannot be used: it is absent, unreadable, no JSON, no
\* JSON object, or its fetched_at is missing or no timestamp
Damaged(f) ==
    \/ f.kind \in {"absent", "invalid", "nondict"}
    \/ f.fetched_at.ty # "str"
    \/ f.fetched_at.v = BadIso

\* C5: whatever the metadata file holds, a call with TTL > 0 that cannot use
\* it treats the entry as a miss: it does not fail because of the metadata,
\* does not serve the cached body, and goes on to the network request.
C5_DamagedMetaIsMiss ==
    \A p \in Procs :
       (pc[p] # "idle" /\ ttl[p] > 0 /\ Damaged(pre[p].meta))
       => outcome[p] \notin {"meta_error", "fresh"}

\* C6: once all concurrent invocations have finished, the stored validators
\* are the ones received together with the stored body.
C6_ValidatorsBelongToBody ==
    Quiet =>
       \A k \in Keys :
          ( /\ bodyFile[k] # None
            /\ metaFile[k].kind = "dict"
            /\ HeaderOf(metaFile[k].etag) # None )
          => bodyFile[k] = Some(Response(Get(HeaderOf(metaFile[k].etag))).content)

\* C8: when a conditional request for a url with a cached body is answered
\* 304, the body file is as it was when the call began, the metadata differs
\* from what it was only in fetched_at, which is the call's `now` (etag and
\* last_modified are kept; url is written again with the value it had), and
\* the call returns the cached body.
C8_NotModifiedRefreshesTimestampOnly ==
    \A p \in Procs :
       (pc[p] = "done" /\ outcome[p] = "not_modified" /\ result[p].kind = "return")
       => /\ bodyFile[Key(p)] = pre[p].body
          /\ metaFile[Key(p)].etag = pre[p].meta.etag
          /\ metaFile[Key(p)].last_modified = pre[p].meta.last_modified
          /\ metaFile[Key(p)] = [pre[p].meta EXCEPT !.fetched_at = JStr(now[p])]
          /\ result[p] = Ret(ReadText(Get(pre[p].body)))

\* a 304 was handled and moved fetched_at forward
C8_Witness ==
    \E p \in Procs :
       /\ pc[p] = "done" /\ outcome[p] = "not_modified" /\ result[p].kind = "return"
       /\ pre[p].meta.fetched_at = JStr(0)
       /\ HeaderOf(pre[p].meta.etag) # None
       /\ now[p] > 0


(***************************************************************************)
(* Properties of filter_events, checked under SpecFilter.                  *)
(***************************************************************************)
\* C3: filter_events with a limit of zero returns what it returns with the
\* limit unset: every surviving event, in order, none cut off.
C3_LimitZeroIsUnbounded ==
    (calls > 0 /\ limit = Some(0))
        => filtered = filter_events(given, after, before, None, ClockInstants[calledAt])

\* the overlap rule as the specification words it, on the resolved instants
KeptByOverlap(e) ==
    /\ normalize_event_start(e) # None
    /\ LET start == Get(normalize_event_start(e))
           end == Get(normalize_event_end(e))
       IN /\ ~(after # None /\ end < Get(after))
          /\ ~(before # None /\ start > Get(before))
KeptIndices == {i \in 1..Len(given) : KeptByOverlap(given[i])}

\* C7: with no limit cutting the result, an event is returned if and only if
\* its start resolves and neither (after is set and end < after) nor
\* (before is set and start > before): the overlap test is inclusive.
C7_InclusiveOverlap ==
    (calls > 0 /\ limit = None)
        => /\ Len(filtered) = Cardinality(KeptIndices)
           /\ {filtered[i].uid : i \in 1..Len(filtered)} = {given[i].uid : i \in KeptIndices}

\* an event spanning `after` and an event starting exactly at `before` are
\* both returned
C7_Witness ==
    /\ calls > 0
    /\ limit = None
    /\ after = Some(T_Jan15)
    /\ before = Some(T_Jan15_0900)
    /\ \E i, j \in 1..Len(given) :
          /\ given[i].uid = "A"
          /\ Get(normalize_event_start(given[i])) < T_Jan15
          /\ Get(normalize_event_end(given[i])) > T_Jan15
          /\ given[j].uid = "C"
          /\ Get(normalize_event_start(given[j])) = T_Jan15_0900
    /\ {filtered[i].uid : i \in 1..Len(filtered)} = {"A", "C"}

(***************************************************************************)
(* Properties of parse_ics_events, checked under SpecParse.                *)
(***************************************************************************)
\* C4: no DTSTART or DTEND value makes parse_ics_events raise: the value is
\* decoded or the field gets no value, and the parse goes on to its return.
C4_DateValuesNeverFatal == ppc # "raised"

\* C10 as stated: in every record produced from a VEVENT without DTEND, or
\* whose last DTEND is unparsable, the field `end` equals the field `start`.
C10_EndFieldEqualsStart ==
    \A i \in 1..Len(events) :
        evSeen[i].dtend \in {"absent", "unparsable"} => events[i].end = events[i].start

\* C10 as amended: such a record has no `end` (it is None), and the end
\* instant normalize_event_end derives from it is the start instant
\* normalize_event_start derives from it.
C10_EndInstantDefaultsToStart ==
    \A i \in 1..Len(events) :
        evSeen[i].dtend \in {"absent", "unparsable"}
            => /\ events[i].end = None
               /\ normalize_event_end(events[i]) = normalize_event_start(events[i])

\* a returned record with a start and an unparsable DTEND, whose end instant
\* is that of its start
C10_Witness ==
    /\ ppc = "returned"
    /\ \E i \in 1..Len(events) :
          /\ evSeen[i].dtend = "unparsable"
          /\ events[i].start # None
          /\ normalize_event_start(events[i]) # None
          /\ normalize_event_end(events[i]) = normalize_event_start(events[i])

(***************************************************************************)
(* Properties of unescape_ical_text, checked under SpecUnescape.           *)
(***************************************************************************)
\* what one escape sequence stands for
Unescaped(c) == IF c \in {"n", "N"} THEN LF ELSE c
\* a decoder that reads the value once, left to right, and decodes every
\* escape sequence where it meets it
RECURSIVE DecodeOnce(_)
DecodeOnce(s) ==
    IF s = <<>> THEN <<>>
    ELSE IF Len(s) >= 2 /\ s[1] = BS /\ s[2] \in {BS, "n", "N", ",", ";"}
         THEN <<Unescaped(s[2])>> \o DecodeOnce(SubSeq(s, 3, Len(s)))
         ELSE <<s[1]>> \o DecodeOnce(Tail(s))

\* C9: unescaping decodes each escape sequence exactly once, so an escaped
\* backslash followed by n, `,` or `;` keeps its backslash and the letter.
C9_EachEscapeDecodedOnce ==
    escOut # None => Get(escOut) = DecodeOnce(escIn)

(***************************************************************************)
(* Further properties of parse_ics_events, checked under SpecParse.        *)
(***************************************************************************)
\* C11 as stated: in every record produced, `start` is None only if the
\* VEVENT held no DTSTART property at all.
C11_StartNoneOnlyWithoutDtstart ==
    \A i \in 1..Len(events) :
        events[i].start = None => evSeen[i].dtstart = "absent"

\* C11 as amended: `start` is None only if the VEVENT held no DTSTART
\* property or the value of its last DTSTART was unparsable.
C11_StartNoneOnlyWithoutDecodedDtstart ==
    \A i \in 1..Len(events) :
        events[i].start = None => evSeen[i].dtstart \in {"absent", "unparsable"}

\* a returned record whose DTSTART was there but unparsable, with no start
C11_Witness ==
    /\ ppc = "returned"
    /\ \E i \in 1..Len(events) :
          evSeen[i].dtstart = "unparsable" /\ events[i].start = None

(***************************************************************************)
(* Further properties of filter_events, checked under SpecFilter.          *)
(***************************************************************************)
\* an event list without the is_ongoing annotations
Bare(evs) == [i \in 1..Len(evs) |-> [evs[i] EXCEPT !.is_ongoing = None]]

\* C12 as stated: two calls with the same arguments, at any two times, return
\* identical output (is_ongoing included), and a call leaves its input events
\* as they were.
C12_PureFunction ==
    /\ calls = 2 => filtered = firstOut
    /\ calls > 0 => evList = given

\* C12 as amended: two calls with the same arguments return the same events
\* in the same order, equal in every field but is_ongoing, and equal in
\* is_ongoing too when made at the same instant; a call changes nothing of
\* its input events but their is_ongoing.
C12_PureUpToOngoing ==
    /\ calls = 2 => Bare(filtered) = Bare(firstOut)
    /\ (calls = 2 /\ calledAt = 1) => filtered = firstOut
    /\ Bare(evList) = Bare(given)

\* two calls at different instants whose outputs differ in is_ongoing only
C12_Witness ==
    /\ calls = 2
    /\ calledAt = 2
    /\ filtered # <<>>
    /\ filtered # firstOut
    /\ Bare(filtered) = Bare(firstOut)
    /\ evList # given

\* the start instant of a surviving event, and the number of survivors that
\* come before survivor i: an earlier start, or the same start met earlier
StartOf(i) == Get(normalize_event_start(given[i]))
Rank(i) ==
    Cardinality({j \in KeptIndices :
        StartOf(j) < StartOf(i) \/ (StartOf(j) = StartOf(i) /\ j < i)})
Min(a, b) == IF a < b THEN a ELSE b

\* C13: with a positive limit N and k surviving events, the result holds
\* min(N, k) events: the survivor with r survivors before it (by start
\* instant, ties by encounter order) stands at place r + 1 if r < N, and the
\* others are left out.
C13_LimitKeepsEarliest ==
    (calls > 0 /\ limit # None /\ Get(limit) > 0)
        => /\ Len(filtered) = Min(Get(limit), Cardinality(KeptIndices))
           /\ \A i \in KeptIndices :
                 Rank(i) < Get(limit) => Bare(filtered)[Rank(i) + 1] = Bare(given)[i]

\* three survivors, two of them with the same start instant, the earliest one
\* met last, and a limit of two
C13_Witness ==
    /\ calls > 0
    /\ limit = Some(2)
    /\ Cardinality(KeptIndices) = 3
    /\ Len(filtered) = 2
    /\ \E i, j \in KeptIndices : i < j /\ StartOf(i) = StartOf(j) /\ given[i].uid # given[j].uid
    /\ Rank(3) = 0
    /\ filtered[1].uid = given[3].uid

(***************************************************************************)
(* Further properties of fetch_ics_url_content, checked under Spec.        *)
(***************************************************************************)
\* a call made with a TTL of zero has come to its end
DirectDone(p) == pc[p] = "done" /\ url[p] # NoUrl /\ ttl[p] = 0

\* C14: a fetch with TTL = 0 makes exactly one request, which carries no
\* validator (so it is never answered 304), returns the decoded response of
\* the server or raises, never the cached body, and leaves the body file and
\* the metadata file as they were.
C14_TtlZeroBypassesCache ==
    \A p \in Procs :
       DirectDone(p)
       => /\ netCalls[p] = 1
          /\ DirectHeaders = NoHeaders
          /\ outcome[p] \in {"ok200", "http_error", "net_error"}
          /\ IF outcome[p] = "ok200"
             THEN \E v \in 1..srvVer : result[p] = Ret(Decode(SrvBytes(v)))
             ELSE result[p] = Raise
          /\ bodyFile[Key(p)] = pre[p].body
          /\ metaFile[Key(p)] = pre[p].meta

\* a fetch with TTL = 0 that was answered while a cached body, fresh for any
\* positive TTL, was there, and returned something else
C14_Witness ==
    \E p \in Procs :
       /\ DirectDone(p)
       /\ outcome[p] = "ok200"
       /\ LoadMeta(metaFile[Key(p)]).kind = "dict"
       /\ IsFresh(bodyFile[Key(p)], LoadMeta(metaFile[Key(p)]), clock, 1)
       /\ result[p] # Ret(ReadText(Get(bodyFile[Key(p)])))

(***************************************************************************)
(* unfold_ical_lines alone, lines 100-112, applied to every short text of  *)
(* plain lines, continuation lines (space, tab, both) and empty lines.     *)
(***************************************************************************)
FoldSamples ==
    { <<"a">>, <<" ", "b">>, <<"\t", "c">>, <<" ", "\t", "d">>, <<>> }
RECURSIVE FoldTexts(_)
FoldTexts(n) == IF n = 0 THEN {<<>>}
                ELSE FoldTexts(n - 1) \cup {Append(t, l) : t \in FoldTexts(n - 1), l \in FoldSamples}
InitUnfoldVars ==
    /\ text \in FoldTexts(MaxLines)
    /\ lines = <<>>
    /\ idx = 0
    /\ events = <<>>
    /\ current = None
    /\ ppc = "start"
    /\ curSeen = NothingSeen
    /\ evSeen = <<>>
InitUnfold == InitUnfoldVars /\ IdleFetch /\ IdleEsc /\ IdleFilter
NextUnfold == Unfold
SpecUnfold == InitUnfold /\ [][NextUnfold]_vars

\* the physical lines that start a logical line: the first one, and every
\* line that does not begin with a space or a tab
IsContinuation(l) == l # <<>> /\ l[1] \in {" ", "\t"}
Starts == {i \in 1..Len(text) : i = 1 \/ ~IsContinuation(text[i])}
\* the last physical line of the logical line that starts at line i
LastOf(i) ==
    CHOOSE j \in i..Len(text) :
        /\ \A m \in (i + 1)..j : m \notin Starts
        /\ j = Len(text) \/ (j + 1) \in Starts
\* line i followed by lines i+1..j, each without its first character
RECURSIVE JoinedTails(_, _)
JoinedTails(i, j) == IF j = i THEN text[i] ELSE JoinedTails(i, j - 1) \o Tail(text[j])

\* C15: the logical lines are, in input order, the physical lines that start
\* one (the first line, and every line not beginning with a space or tab),
\* each followed by the continuation lines after it with exactly their first
\* character removed.
C15_Unfolding ==
    ppc = "loop"
        => /\ Len(lines) = Cardinality(Starts)
           /\ \A i \in Starts :
                 lines[Cardinality({j \in Starts : j <= i})] = JoinedTails(i, LastOf(i))

\* a first line that begins with a space and is kept whole, followed by a
\* continuation that begins with a space and a tab and loses the space only
C15_Witness ==
    /\ ppc = "loop"
    /\ Len(text) >= 3
    /\ text[1] = <<" ", "b">>
    /\ text[2] = <<" ", "\t", "d">>
    /\ text[3] = <<"a">>
    /\ lines[1] = <<" ", "b", "\t", "d">>
    /\ lines[2] = <<"a">>

\* C16: the webcal, webcals and https forms of one host, path and query are
\* normalized to one URL and so to one cache key: whatever form a call that
\* uses the cache was given, the key it works on is the key of every scheme
\* variant of its input.
C16_SchemeVariantsShareKey ==
    \A p \in Procs :
       (url[p] # NoUrl /\ ttl[p] > 0)
       => \A u \in InputUrls :
             normalize_calendar_url(u) = url[p]
             => \A s \in {"https", "webcal", "webcals"} :
                   url_cache_key(normalize_calendar_url(MkUrl(s, u.rest))) = Key(p)

\* a call with TTL > 0 has come to its end without a 200 or a 304 response
EndedWithoutResponse(p) ==
    /\ pc[p] = "done"
    /\ ttl[p] > 0
    /\ outcome[p] \notin {"ok200", "not_modified"}
\* the call fell back to the stale body after a failure
FellBack(p) ==
    pc[p] = "done" /\ outcome[p] = "net_error" /\ result[p].kind = "return"

\* C17: the body file and the metadata file of a URL change only in a call
\* that received a 200 or a 304: a call served from the cache within the TTL,
\* a call that falls back to the stale body and a call that fails leave both
\* as they found them, and after a fallback the entry is still not fresh, so
\* the next fetch goes to the network again.
C17_CacheChangesOnlyOnResponse ==
    \A p \in Procs :
       /\ EndedWithoutResponse(p)
          => /\ bodyFile[Key(p)] = pre[p].body
             /\ metaFile[Key(p)] = pre[p].meta
       /\ FellBack(p)
          => /\ result[p] = Ret(ReadText(Get(pre[p].body)))
             /\ ~IsFresh(bodyFile[Key(p)], LoadMeta(metaFile[Key(p)]), clock, ttl[p])

\* a fallback to the stale body of an entry with a well-formed timestamp
C17_Witness ==
    \E p \in Procs :
       /\ FellBack(p)
       /\ pre[p].body # None
       /\ pre[p].meta.fetched_at = JStr(0)
       /\ metaFile[Key(p)] = pre[p].meta

(***************************************************************************)
(* Properties of the event assembly, checked under SpecParse.              *)
(***************************************************************************)
\* the loop of line 172 takes the logical line at idx
TakesLine == ppc = "loop" /\ idx <= Len(lines) /\ idx' = idx + 1

EndUnresolvable(e) == e.end = None \/ Resolved(Get(e.end)) = None
\* the range test on a start instant and an end instant
InRange(start, end) ==
    /\ ~(after # None /\ end < Get(after))
    /\ ~(before # None /\ start > Get(before))
\* what the call leaves in event i that passed the test with the end `end`
Marked(i, end) ==
    evList[i].is_ongoing =
        IF InRange(StartOf(i), end)
        THEN Some(StartOf(i) <= ClockInstants[calledAt] /\ ClockInstants[calledAt] <= end)
        ELSE None

\* C19: an event whose start cannot be resolved is not in the output and is
\* not annotated; an event whose end is missing or unparsable is processed
\* with its start instant as end; an event whose end is earlier than its
\* start is processed with that end.
C19_IncompleteEvents ==
    calls > 0
    => \A i \in 1..Len(given) :
          IF normalize_event_start(given[i]) = None
          THEN /\ evList[i].is_ongoing = None
               /\ \A j \in 1..Len(filtered) : filtered[j].uid # given[i].uid
          ELSE IF EndUnresolvable(given[i])
          THEN Marked(i, StartOf(i))
          ELSE Marked(i, Get(Resolved(Get(given[i].end))))

\* an event whose start is no date is left out, an event whose end is no date
\* and an event that ends before it starts are returned
C19_Witness ==
    /\ calls > 0
    /\ after = None /\ before = None /\ limit = None
    /\ Len(given) = 3
    /\ given[1].uid = "G" /\ normalize_event_start(given[1]) = None
    /\ given[2].uid = "F"
    /\ Get(normalize_event_end(given[2])) < Get(normalize_event_start(given[2]))
    /\ given[3].uid = "E" /\ EndUnresolvable(given[3])
    /\ Len(filtered) = 2
    /\ filtered[1].uid = "E" /\ filtered[2].uid = "F"
    /\ evList[1].is_ongoing = None

\* the END:VEVENT lines that close a record: the nearest BEGIN:VEVENT or
\* END:VEVENT before them is a BEGIN:VEVENT
IsOpener(b, j) ==
    /\ b < j
    /\ lines[b] = BEGIN_VEVENT
    /\ \A m \in (b + 1)..(j - 1) : lines[m] \notin {BEGIN_VEVENT, END_VEVENT}
Closers ==
    {j \in 1..Len(lines) : lines[j] = END_VEVENT /\ \E b \in 1..Len(lines) : IsOpener(b, j)}
OpenerOf(j) == CHOOSE b \in 1..Len(lines) : IsOpener(b, j)
\* the property names on the lines between a record's BEGIN and END
KeysBetween(b, j) ==
    {parse_property(lines[m]).key : m \in {n \in (b + 1)..(j - 1) : Contains(lines[n], ":")}}

\* C20: the output holds one event for every END:VEVENT whose nearest
\* BEGIN:VEVENT or END:VEVENT before it is a BEGIN:VEVENT, in that order, and
\* no other (a record open at a BEGIN:VEVENT or at the end of the input is
\* dropped); a field of an event has a value only if a line between that
\* BEGIN:VEVENT and that END:VEVENT names it.
C20_OnlyClosedRecords ==
    ppc = "returned"
    => /\ Len(events) = Cardinality(Closers)
       /\ \A j \in Closers :
             LET e == events[Cardinality({c \in Closers : c <= j})]
                 keys == KeysBetween(OpenerOf(j), j)
             IN /\ e.summary # None => K_SUMMARY \in keys
                /\ e.start # None => K_DTSTART \in keys
                /\ e.end # None => K_DTEND \in keys
                /\ e.attendees # <<>> => K_ATTENDEE \in keys

\* a record with a SUMMARY is discarded by a second BEGIN:VEVENT, and the
\* event that is returned has no summary
C20_Witness ==
    /\ ppc = "returned"
    /\ Len(lines) = 4
    /\ lines[1] = BEGIN_VEVENT
    /\ Contains(lines[2], ":") /\ parse_property(lines[2]).key = K_SUMMARY
    /\ lines[3] = BEGIN_VEVENT
    /\ lines[4] = END_VEVENT
    /\ Len(events) = 1
    /\ events[1].summary = None


=============================================================================
